---- MODULE Spec2Model ----
(***************************************************************************)
(* Model of PDE-complexity/loop.py (score -> trainer -> error -> write ->  *)
(* regression pipeline) and PDE-complexity/scorer.py (score-only script).  *)
(*                                                                         *)
(* Text is a sequence of one-character strings.  A Python float is a       *)
(* record [n, d]: the exact rational n/d when d > 0, and the IEEE special  *)
(* values when d = 0 (n = 1: inf, n = -1: -inf, n = 0: nan).  Rounding of  *)
(* finite values is not modelled; inf and nan are.                         *)
(***************************************************************************)
EXTENDS Integers, Sequences, FiniteSets, TLC

\* ---------------------------------------------------------------- bounds
MaxRows == 3
MaxPts == 3
MaxX == 3
MaxY == 3

\* ------------------------------------------------------ integer helpers
Abs(k) == IF k < 0 THEN -k ELSE k

RECURSIVE Gcd(_, _)
Gcd(a, b) == IF b = 0 THEN a ELSE Gcd(b, a % b)

RECURSIVE Pow10(_)
Pow10(k) == IF k = 0 THEN 1 ELSE 10 * Pow10(k - 1)

\* ------------------------------------------------- Python float values
Fin(n, d) == LET g == Gcd(Abs(n), d) IN [n |-> n \div g, d |-> d \div g]
FInt(k) == [n |-> k, d |-> 1]
Zero == FInt(0)
Inf == [n |-> 1, d |-> 0]
NegInf == [n |-> -1, d |-> 0]
NaN == [n |-> 0, d |-> 0]

IsNaN(a) == a.d = 0 /\ a.n = 0
IsInf(a) == a.d = 0 /\ a.n # 0
IsFinite(a) == a.d > 0
Sign(a) == IF a.n > 0 THEN 1 ELSE IF a.n < 0 THEN -1 ELSE 0

FNeg(a) == [n |-> -a.n, d |-> a.d]

FAdd(a, b) ==
  IF IsNaN(a) \/ IsNaN(b) THEN NaN
  ELSE IF IsInf(a) /\ IsInf(b) THEN (IF a.n = b.n THEN a ELSE NaN)
  ELSE IF IsInf(a) THEN a
  ELSE IF IsInf(b) THEN b
  ELSE Fin(a.n * b.d + b.n * a.d, a.d * b.d)

FSub(a, b) == FAdd(a, FNeg(b))

FMul(a, b) ==
  IF IsNaN(a) \/ IsNaN(b) THEN NaN
  ELSE IF IsInf(a) \/ IsInf(b)
       THEN (IF Sign(a) * Sign(b) = 0 THEN NaN
             ELSE [n |-> Sign(a) * Sign(b), d |-> 0])
  ELSE Fin(a.n * b.n, a.d * b.d)

\* true division; the callers never divide by zero
FDiv(a, b) ==
  IF IsNaN(a) \/ IsNaN(b) THEN NaN
  ELSE IF IsInf(a) /\ IsInf(b) THEN NaN
  ELSE IF IsInf(a) THEN [n |-> Sign(a) * (IF Sign(b) < 0 THEN -1 ELSE 1), d |-> 0]
  ELSE IF IsInf(b) THEN Zero
  ELSE Fin(a.n * b.d * Sign(b), a.d * Abs(b.n))

\* x == 0 on floats: false for nan and the infinities
FIsZero(a) == IsFinite(a) /\ a.n = 0

\* the builtin sum(): left fold from 0
RECURSIVE FSum(_)
FSum(s) == IF s = <<>> THEN Zero
           ELSE FAdd(FSum(SubSeq(s, 1, Len(s) - 1)), s[Len(s)])

\* -------------------------------------------------------- text helpers
Digits == <<"0", "1", "2", "3", "4", "5", "6", "7", "8", "9">>
IsDigit(c) == \E k \in 1..10 : Digits[k] = c
DigitVal(c) == (CHOOSE k \in 1..10 : Digits[k] = c) - 1
IsSpace(c) == c \in {" ", "\t"}

Lower(c) ==
  CASE c = "I" -> "i" [] c = "N" -> "n" [] c = "F" -> "f" [] c = "A" -> "a"
    [] OTHER -> c

LowerText(s) == [k \in 1..Len(s) |-> Lower(s[k])]

RECURSIVE LStrip(_)
LStrip(s) == IF s # <<>> /\ IsSpace(Head(s)) THEN LStrip(Tail(s)) ELSE s

RECURSIVE RStrip(_)
RStrip(s) == IF s # <<>> /\ IsSpace(s[Len(s)])
             THEN RStrip(SubSeq(s, 1, Len(s) - 1)) ELSE s

\* str.strip()
Strip(s) == RStrip(LStrip(s))

RECURSIVE NatOfDigits(_)
NatOfDigits(s) == IF s = <<>> THEN 0
                  ELSE 10 * NatOfDigits(SubSeq(s, 1, Len(s) - 1)) + DigitVal(s[Len(s)])

RECURSIVE NatText(_)
NatText(k) == IF k < 10 THEN <<Digits[k + 1]>>
              ELSE NatText(k \div 10) \o <<Digits[(k % 10) + 1]>>

\* k written with exactly w digits (leading zeros)
RECURSIVE PadText(_, _)
PadText(k, w) == IF w = 0 THEN <<>>
                 ELSE PadText(k \div 10, w - 1) \o <<Digits[(k % 10) + 1]>>

RECURSIVE DropTrailingZeros(_)
DropTrailingZeros(s) == IF Len(s) > 1 /\ s[Len(s)] = "0"
                        THEN DropTrailingZeros(SubSeq(s, 1, Len(s) - 1)) ELSE s

\* --------------------------------------------------- Python cell values
\* a dict value is a str, None, or a float
Str(s) == [t |-> "str", s |-> s, f |-> Zero]
NoneVal == [t |-> "none", s |-> <<>>, f |-> Zero]
Flt(x) == [t |-> "float", s |-> <<>>, f |-> x]

\* outcome of a call that may raise
Ok(x) == [exc |-> "", val |-> x]
Raise(e) == [exc |-> e, val |-> Zero]

AllDigits(s) == \A k \in 1..Len(s) : IsDigit(s[k])
DotAt(s) == IF \E k \in 1..Len(s) : s[k] = "." 
            THEN CHOOSE k \in 1..Len(s) : s[k] = "." ELSE 0

\* float() of an unsigned literal: digits, digits.digits, inf, infinity, nan
\* (exponents and underscores are outside the modelled texts)
UnsignedLiteral(u) ==
  LET l == LowerText(u)
      p == DotAt(u)
      ip == IF p = 0 THEN u ELSE SubSeq(u, 1, p - 1)
      fp == IF p = 0 THEN <<>> ELSE SubSeq(u, p + 1, Len(u))
  IN  IF l = <<"i", "n", "f">> \/ l = <<"i", "n", "f", "i", "n", "i", "t", "y">>
        THEN Ok(Inf)
      ELSE IF l = <<"n", "a", "n">> THEN Ok(NaN)
      ELSE IF AllDigits(ip) /\ AllDigits(fp) /\ Len(ip) + Len(fp) > 0
        THEN Ok(Fin(NatOfDigits(ip \o fp), Pow10(Len(fp))))
      ELSE Raise("ValueError")

\* the builtin float(): floats pass through, None is a TypeError, text is
\* stripped, an optional sign is read, the rest must be a literal
PyFloat(v) ==
  IF v.t = "float" THEN Ok(v.f)
  ELSE IF v.t = "none" THEN Raise("TypeError")
  ELSE LET s == Strip(v.s)
           signed == s # <<>> /\ Head(s) \in {"+", "-"}
           u == IF signed THEN Tail(s) ELSE s
           r == UnsignedLiteral(u)
       IN  IF r.exc # "" THEN r
           ELSE IF signed /\ Head(s) = "-" THEN Ok(FNeg(r.val)) ELSE r

\* repr() of a float, as csv.DictWriter writes it: shortest decimal with a
\* fractional part ("3.0", "0.5"); defined for values with up to 4 decimals
FloatStr(x) ==
  IF IsNaN(x) THEN <<"n", "a", "n">>
  ELSE IF IsInf(x) THEN (IF x.n > 0 THEN <<"i", "n", "f">> ELSE <<"-", "i", "n", "f">>)
  ELSE LET scaled == (Abs(x.n) * 10000) \div x.d
           body == NatText(scaled \div 10000) \o <<".">>
                     \o DropTrailingZeros(PadText(scaled % 10000, 4))
       IN  IF x.n < 0 THEN <<"-">> \o body ELSE body

\* format(x, ".4f"): four decimals, round half to even
Fmt4(x) ==
  IF IsNaN(x) THEN <<"n", "a", "n">>
  ELSE IF IsInf(x) THEN (IF x.n > 0 THEN <<"i", "n", "f">> ELSE <<"-", "i", "n", "f">>)
  ELSE LET num == Abs(x.n) * 10000
           q == num \div x.d
           r2 == 2 * (num % x.d)
           scaled == IF r2 > x.d \/ (r2 = x.d /\ q % 2 = 1) THEN q + 1 ELSE q
           body == NatText(scaled \div 10000) \o <<".">> \o PadText(scaled % 10000, 4)
       IN  IF x.n < 0 THEN <<"-">> \o body ELSE body

\* str() of a cell as csv.DictWriter writes it (None becomes the empty text)
CellText(v) == IF v.t = "str" THEN v.s
               ELSE IF v.t = "none" THEN <<>> ELSE FloatStr(v.f)

\* --------------------------------------------------------------- dicts
\* a dict is [keys: insertion-ordered column names, vals: key -> value]
InSeq(x, s) == \E k \in 1..Len(s) : s[k] = x

\* row.get(col, default)
Get(row, col, default) == IF InSeq(col, row.keys) THEN row.vals[col] ELSE default

\* row[col] = v : an existing key keeps its position, a new key goes last
SetItem(row, col, v) ==
  [keys |-> IF InSeq(col, row.keys) THEN row.keys ELSE Append(row.keys, col),
   vals |-> [c \in DOMAIN row.vals \cup {col} |-> IF c = col THEN v ELSE row.vals[c]]]

\* csv.DictReader: zip the header with the cells, absent cells are None
\* (the modelled files have no row longer than the header)
DictReaderRow(header, cells) ==
  [keys |-> header,
   vals |-> [c \in {header[k] : k \in 1..Len(header)} |->
               LET k == CHOOSE j \in 1..Len(header) : header[j] = c
               IN  IF k <= Len(cells) THEN Str(cells[k]) ELSE NoneVal]]

DictReader(header, lines) == [k \in 1..Len(lines) |-> DictReaderRow(header, lines[k])]

\* csv.DictWriter.writerow: a key outside fieldnames is a ValueError
\* (extrasaction="raise"), a missing field is written as "" (restval)
DictWriterRow(fieldnames, row) ==
  IF \E k \in 1..Len(row.keys) : ~InSeq(row.keys[k], fieldnames)
  THEN [exc |-> "ValueError", val |-> <<>>]
  ELSE [exc |-> "",
        val |-> [k \in 1..Len(fieldnames) |->
                   CellText(Get(row, fieldnames[k], Str(<<>>)))]]

\* an expression that raised instead of yielding a value
Exc(e) == [t |-> "raise", s |-> <<e>>, f |-> Zero]

\* =================================================== loop.py: helpers
SCORING_COLUMNS == <<"Dimensionality", "Nonlinearity", "Boundary", "Time", "Coupling">>

\* faulty variant of parse_float: no try/except around float()
parse_float_unguarded(val, default) ==
  IF val = NoneVal \/ val = Str(<<>>) THEN default
  ELSE LET r == PyFloat(val) IN IF r.exc = "" THEN Flt(r.val) ELSE Exc(r.exc)

\* parse_float(val, default): default when val is None or "", or when
\* float() raises TypeError or ValueError
parse_float(val, default) ==
  IF val = NoneVal \/ val = Str(<<>>) THEN default
  ELSE LET r == PyFloat(val)
       IN  IF r.exc = "" THEN Flt(r.val)
           ELSE IF r.exc \in {"TypeError", "ValueError"} THEN default
           ELSE Exc(r.exc)

\* total += v ; float + None is a TypeError
PyAdd(total, v) ==
  IF total.t = "raise" THEN total
  ELSE IF v.t = "raise" THEN v
  ELSE IF v.t # "float" THEN Exc("TypeError")
  ELSE Flt(FAdd(total.f, v.f))

RECURSIVE ScoreUpTo(_, _)
ScoreUpTo(row, k) ==
  IF k = 0 THEN Flt(Zero)
  ELSE PyAdd(ScoreUpTo(row, k - 1),
             parse_float(Get(row, SCORING_COLUMNS[k], NoneVal), Flt(Zero)))

\* compute_total_score(row)
compute_total_score(row) == ScoreUpTo(row, Len(SCORING_COLUMNS))

\* faulty variant of TrainerModuleOf: the .strip() is dropped
TrainerModuleUnstripped(row) ==
  LET v == Get(row, "TrainerModule", NoneVal)
  IN  IF v.t = "str" /\ v.s # <<>> THEN v.s ELSE <<>>

\* module = (row.get("TrainerModule") or "").strip()
TrainerModuleOf(row) ==
  LET v == Get(row, "TrainerModule", NoneVal)
  IN  IF v.t = "str" /\ v.s # <<>> THEN Strip(v.s) ELSE <<>>

\* name = row.get("Name", "UNKNOWN")
NameOf(row) == Get(row, "Name", Str(<<"U", "N", "K", "N", "O", "W", "N">>))

\* get_error_for_row(row)
get_error_for_row(row) == parse_float(Get(row, "L3_Error", NoneVal), NoneVal)

\* faulty variant of check_returncode: subprocess.run without check=True
check_returncode_off(status) == FALSE

\* subprocess.run(..., check=True): a non-zero status raises CalledProcessError
check_returncode(status) == status # 0

Square(x) == FMul(x, x)

\* faulty variant of linear_regression: the intercept is taken as mean_y
linear_regression_no_intercept(xs, ys) ==
  LET n == Len(xs)
      mean_x == FDiv(FSum(xs), FInt(n))
      mean_y == FDiv(FSum(ys), FInt(n))
      num == FSum([k \in 1..n |-> FMul(FSub(xs[k], mean_x), FSub(ys[k], mean_y))])
      den == FSum([k \in 1..n |-> Square(FSub(xs[k], mean_x))])
  IN  IF n = 0 THEN [none |-> TRUE, a |-> Zero, b |-> Zero]
      ELSE IF FIsZero(den) THEN [none |-> TRUE, a |-> Zero, b |-> Zero]
      ELSE [none |-> FALSE, a |-> FDiv(num, den), b |-> mean_y]

\* linear_regression(xs, ys): (None, None) or (a, b)
linear_regression(xs, ys) ==
  LET n == Len(xs)
      mean_x == FDiv(FSum(xs), FInt(n))
      mean_y == FDiv(FSum(ys), FInt(n))
      num == FSum([k \in 1..n |-> FMul(FSub(xs[k], mean_x), FSub(ys[k], mean_y))])
      den == FSum([k \in 1..n |-> Square(FSub(xs[k], mean_x))])
  IN  IF n = 0 THEN [none |-> TRUE, a |-> Zero, b |-> Zero]
      ELSE IF FIsZero(den) THEN [none |-> TRUE, a |-> Zero, b |-> Zero]
      ELSE LET a == FDiv(num, den)
           IN  [none |-> FALSE, a |-> a, b |-> FSub(mean_y, FMul(a, mean_x))]

\* ================================================= scorer.py: helpers
COLUMNS_FOR_SCORING == <<"Dimensionality", "Nonlinearity", "Boundary", "Time", "Coupling">>

\* scorer.parse_float(value): float(value), 0.0 on ValueError or TypeError
scorer_parse_float(value) ==
  LET r == PyFloat(value)
  IN  IF r.exc = "" THEN Flt(r.val)
      ELSE IF r.exc \in {"ValueError", "TypeError"} THEN Flt(Zero)
      ELSE Exc(r.exc)

RECURSIVE ScorerScoreUpTo(_, _)
ScorerScoreUpTo(row, k) ==
  IF k = 0 THEN Flt(Zero)
  ELSE PyAdd(ScorerScoreUpTo(row, k - 1),
             scorer_parse_float(Get(row, COLUMNS_FOR_SCORING[k], Flt(Zero))))

\* scorer.compute_total_score(row)
scorer_compute_total_score(row) == ScorerScoreUpTo(row, Len(COLUMNS_FOR_SCORING))

\* ============================================================== state
VARIABLES
  program,      \* which script runs: "loop" (loop.py) or "scorer" (scorer.py)
  inputExists,  \* PDE.csv exists
  fileHeader,   \* header line of PDE.csv (column names)
  fileLines,    \* data lines of PDE.csv (each a sequence of cell texts)
  rows,         \* the in-memory list of dicts
  fieldnames,   \* header of the output table
  pc,           \* position in main()
  i,            \* index of the record the for loop is at
  trainerLog,   \* subprocess launches and exits, in order
  console,      \* printed messages
  resultsFile,  \* results.csv as written by this run
  regFile,      \* regression.txt as written by this run
  exitStatus,   \* process exit status, -1 while running
  points,       \* xs, ys gathered for the regression
  fnArgs,       \* argument of a directly called function
  fnRet         \* its result

vars == <<program, inputExists, fileHeader, fileLines, rows, fieldnames, pc, i,
          trainerLog, console, resultsFile, regFile, exitStatus, points,
          fnArgs, fnRet>>

input == <<program, inputExists, fileHeader, fileLines>>
fnVars == <<fnArgs, fnRet>>

NotWritten == [written |-> FALSE, header |-> <<>>, rows |-> <<>>]
NoReport == [written |-> FALSE, a |-> <<>>, b |-> <<>>, used |-> <<>>]
NoPoints == [xs |-> <<>>, ys |-> <<>>]
Msg(tag, arg) == [tag |-> tag, arg |-> arg]

\* str(value) as print() shows it
PyStr(v) == IF v.t = "none" THEN <<"N", "o", "n", "e">> ELSE CellText(v)

\* ------------------------------------------------------------- inputs
FullHeader == <<"Name", "Dimensionality", "Nonlinearity", "Boundary", "Time",
                "Coupling", "TrainerModule", "L3_Error">>
\* a table already scored once, without trainer, error and three score columns
BareHeader == <<"Name", "Total_Score", "Dimensionality", "Nonlinearity">>
Headers == {FullHeader, BareHeader}

\* one input line: the text of each column, and how many trailing cells the
\* line leaves out
Line(name, dim, nl, bd, tm, cp, mod, err, cut) ==
  [Name |-> name, Dimensionality |-> dim, Nonlinearity |-> nl, Boundary |-> bd,
   Time |-> tm, Coupling |-> cp, TrainerModule |-> mod, L3_Error |-> err,
   Total_Score |-> <<"9">>, cut |-> cut]

LineTemplates == {
  Line(<<"A">>, <<"2">>, <<"1">>, <<>>, <<"0">>, <<"a", "b", "c">>, <<>>, <<>>, 0),
  Line(<<"B">>, <<"-", "1">>, <<"2">>, <<"0">>, <<"0">>, <<"0">>, <<"m">>, <<"2">>, 0),
  Line(<<"C">>, <<" ", "2">>, <<"0">>, <<>>, <<"0">>, <<"x">>, <<" ">>, <<"4", ".", "0">>, 0),
  Line(<<"D">>, <<"3">>, <<"0">>, <<"0">>, <<"0">>, <<"0">>, <<"m">>, <<"6">>, 0),
  Line(<<"E">>, <<"i", "n", "f">>, <<"0">>, <<"0">>, <<"0">>, <<"0">>, <<>>, <<"1">>, 0),
  Line(<<"G">>, <<"0", ".", "5">>, <<"0", ".", "5">>, <<"0">>, <<"0">>, <<"0">>, <<"m">>,
       <<"N", "a", "N">>, 0),
  Line(<<"I">>, <<"2">>, <<"0">>, <<"0">>, <<"0">>, <<"0">>, <<"m">>, <<"n", "/", "a">>, 0),
  Line(<<"F">>, <<"1">>, <<"1">>, <<"0">>, <<"0">>, <<"0">>, <<"m">>, <<"5">>, 2) }

\* the cells of a line under a header
Cells(h, t) == [k \in 1..(Len(h) - t.cut) |-> t[h[k]]]

SeqsUpTo(S, n) == UNION {[1..k -> S] : k \in 0..n}

ExitCodes == {0, 1}

Init ==
  /\ program \in {"loop", "scorer"}
  /\ \/ /\ inputExists = FALSE
        /\ fileHeader = <<>>
        /\ fileLines = <<>>
     \/ /\ inputExists = TRUE
        /\ fileHeader \in Headers
        /\ \E ts \in SeqsUpTo(LineTemplates, MaxRows) :
             fileLines = [k \in 1..Len(ts) |-> Cells(fileHeader, ts[k])]
  /\ rows = <<>>
  /\ fieldnames = <<>>
  /\ pc = "start"
  /\ i = 0
  /\ trainerLog = <<>>
  /\ console = <<>>
  /\ resultsFile = NotWritten
  /\ regFile = NoReport
  /\ exitStatus = -1
  /\ points = NoPoints
  /\ fnArgs = <<>>
  /\ fnRet = <<>>

\* ====================================================== loop.py: main
\* sys.exit(status), or an uncaught exception (status 1); a normal return of
\* main() is pc = "done"
Halt(status, msg) ==
  /\ pc' = "exit"
  /\ exitStatus' = status
  /\ console' = Append(console, msg)

\* faulty variant of LoadInput: the "if not rows" early exit is missing
LoadInputNoRowCheck ==
  /\ program = "loop" /\ pc = "start"
  /\ IF ~inputExists
     THEN Halt(1, Msg("ERROR not found", <<>>)) /\ UNCHANGED <<rows, i>>
     ELSE /\ rows' = DictReader(fileHeader, fileLines)
          /\ console' = Append(console, Msg("Loaded", NatText(Len(fileLines))))
          /\ pc' = IF fileLines = <<>> THEN "write" ELSE "score"
          /\ i' = 1
          /\ UNCHANGED exitStatus
  /\ UNCHANGED <<input, fieldnames, trainerLog, resultsFile, regFile, points, fnVars>>

\* lines 128-141: sys.exit(1) when PDE.csv is missing, read it, sys.exit(0)
\* when it has no data row
LoadInput ==
  /\ program = "loop" /\ pc = "start"
  /\ IF ~inputExists
     THEN Halt(1, Msg("ERROR not found", <<>>)) /\ UNCHANGED <<rows, i>>
     ELSE LET rs == DictReader(fileHeader, fileLines)
          IN  /\ rows' = rs
              /\ IF rs = <<>>
                 THEN Halt(0, Msg("No rows", <<>>)) /\ UNCHANGED i
                 ELSE /\ console' = Append(console, Msg("Loaded", NatText(Len(rs))))
                      /\ pc' = "score"
                      /\ i' = 1
                      /\ UNCHANGED exitStatus
  /\ UNCHANGED <<input, fieldnames, trainerLog, resultsFile, regFile, points, fnVars>>

\* lines 146-147: row["Total_Score"] = compute_total_score(row)
ScoreRow ==
  /\ program = "loop" /\ pc = "score"
  /\ LET total == compute_total_score(rows[i])
     IN  IF total.t = "raise"
         THEN Halt(1, Msg(total.s[1], <<>>)) /\ UNCHANGED rows
         ELSE /\ rows' = [rows EXCEPT ![i] = SetItem(@, "Total_Score", total)]
              /\ pc' = "trainer"
              /\ UNCHANGED <<console, exitStatus>>
  /\ UNCHANGED <<input, fieldnames, i, trainerLog, resultsFile, regFile, points, fnVars>>

\* faulty variant of RunTrainer: the subprocess is started and not waited for
RunTrainerNoWait ==
  /\ program = "loop" /\ pc = "trainer"
  /\ LET module == TrainerModuleOf(rows[i])
     IN  IF module = <<>>
         THEN /\ console' = Append(console, Msg("SKIP", PyStr(NameOf(rows[i]))))
              /\ UNCHANGED trainerLog
         ELSE /\ console' = Append(console, Msg("Running", module))
              /\ trainerLog' = Append(trainerLog, [ev |-> "launch", rec |-> i, status |-> 0])
  /\ pc' = "error"
  /\ UNCHANGED <<input, rows, fieldnames, i, resultsFile, regFile, exitStatus, points, fnVars>>

\* lines 151, 62-73: skip when module is empty, else launch the trainer and
\* block in subprocess.run
RunTrainer ==
  /\ program = "loop" /\ pc = "trainer"
  /\ LET module == TrainerModuleOf(rows[i])
     IN  IF module = <<>>
         THEN /\ console' = Append(console, Msg("SKIP", PyStr(NameOf(rows[i]))))
              /\ pc' = "error"
              /\ UNCHANGED trainerLog
         ELSE /\ console' = Append(console, Msg("Running", module))
              /\ trainerLog' = Append(trainerLog, [ev |-> "launch", rec |-> i, status |-> 0])
              /\ pc' = "wait"
  /\ UNCHANGED <<input, rows, fieldnames, i, resultsFile, regFile, exitStatus, points, fnVars>>

\* lines 73-74: the trainer exits; check=True turns a failure status into an
\* uncaught CalledProcessError
TrainerExit(status) ==
  /\ program = "loop" /\ pc = "wait"
  /\ trainerLog' = Append(trainerLog, [ev |-> "exit", rec |-> i, status |-> status])
  /\ IF check_returncode(status)
     THEN Halt(1, Msg("CalledProcessError", <<>>))
     ELSE /\ console' = Append(console, Msg("DONE", PyStr(NameOf(rows[i]))))
          /\ pc' = "error"
          /\ UNCHANGED exitStatus
  /\ UNCHANGED <<input, rows, fieldnames, i, resultsFile, regFile, points, fnVars>>

\* faulty variant of StoreError: the value is stored even when it is None
StoreErrorAlways(row, error) == SetItem(row, "L3_Error", error)

\* lines 155-156: if error is not None: row["L3_Error"] = error
StoreError(row, error) ==
  IF error # NoneVal THEN SetItem(row, "L3_Error", error) ELSE row

\* faulty variant of CollectError: the for loop is left after the first record
CollectErrorBreak ==
  /\ program = "loop" /\ pc = "error"
  /\ rows' = [rows EXCEPT ![i] = StoreError(@, get_error_for_row(@))]
  /\ i' = i + 1
  /\ pc' = "write"
  /\ UNCHANGED <<input, fieldnames, trainerLog, console, resultsFile, regFile,
                 exitStatus, points, fnVars>>

\* lines 154-156 and the loop step of line 144
CollectError ==
  /\ program = "loop" /\ pc = "error"
  /\ rows' = [rows EXCEPT ![i] = StoreError(@, get_error_for_row(@))]
  /\ i' = i + 1
  /\ pc' = IF i = Len(rows) THEN "write" ELSE "score"
  /\ UNCHANGED <<input, fieldnames, trainerLog, console, resultsFile, regFile,
                 exitStatus, points, fnVars>>

\* csv.DictWriter.writerows: rows are written until one raises
RECURSIVE WriteRows(_, _, _)
WriteRows(names, rs, k) ==
  IF k = 0 THEN [exc |-> "", val |-> <<>>]
  ELSE LET before == WriteRows(names, rs, k - 1)
           this == DictWriterRow(names, rs[k])
       IN  IF before.exc # "" THEN before
           ELSE IF this.exc # "" THEN [exc |-> this.exc, val |-> before.val]
           ELSE [exc |-> "", val |-> Append(before.val, this.val)]

\* lines 160-169: header from the first record's keys, then all rows
WriteResults ==
  /\ program = "loop" /\ pc = "write"
  /\ IF rows = <<>>
     THEN Halt(1, Msg("IndexError", <<>>)) /\ UNCHANGED <<fieldnames, resultsFile>>
     ELSE LET keys == rows[1].keys
              names == IF InSeq("Total_Score", keys) THEN keys
                       ELSE Append(keys, "Total_Score")
              out == WriteRows(names, rows, Len(rows))
          IN  /\ fieldnames' = names
              /\ resultsFile' = [written |-> TRUE, header |-> names, rows |-> out.val]
              /\ IF out.exc # ""
                 THEN Halt(1, Msg(out.exc, <<>>))
                 ELSE /\ console' = Append(console, Msg("Wrote scored results", <<>>))
                      /\ pc' = "regress"
                      /\ UNCHANGED exitStatus
  /\ UNCHANGED <<input, rows, i, trainerLog, regFile, points, fnVars>>

\* faulty variant of ValidPair: the math.isnan test is missing
ValidPairNoNaNTest(score, err) == score # NoneVal /\ err # NoneVal

\* line 177: score is not None and err is not None and not math.isnan(err)
ValidPair(score, err) == score # NoneVal /\ err # NoneVal /\ ~IsNaN(err.f)

\* lines 172-179: xs, ys over the records, in order
RECURSIVE GatherPoints(_, _)
GatherPoints(rs, k) ==
  IF k = 0 THEN NoPoints
  ELSE LET before == GatherPoints(rs, k - 1)
           score == parse_float(Get(rs[k], "Total_Score", NoneVal), NoneVal)
           err == parse_float(Get(rs[k], "L3_Error", NoneVal), NoneVal)
       IN  IF ValidPair(score, err)
           THEN [xs |-> Append(before.xs, score.f), ys |-> Append(before.ys, err.f)]
           ELSE before

\* lines 186-191: the two lines of regression.txt (the variable parts)
RegressionReport(res, n) ==
  [written |-> TRUE, a |-> Fmt4(res.a), b |-> Fmt4(res.b), used |-> NatText(n)]

\* lines 172-193: gather the points, fit, report
Regress ==
  /\ program = "loop" /\ pc = "regress"
  /\ LET pts == GatherPoints(rows, Len(rows))
         res == linear_regression(pts.xs, pts.ys)
     IN  /\ points' = pts
         /\ IF res.none
            THEN /\ console' = Append(console, Msg("Not enough valid pairs", <<>>))
                 /\ UNCHANGED regFile
            ELSE /\ console' = Append(console, Msg("Saved regression info", <<>>))
                 /\ regFile' = RegressionReport(res, Len(pts.xs))
  /\ pc' = "done"
  /\ exitStatus' = 0
  /\ UNCHANGED <<input, rows, fieldnames, i, trainerLog, resultsFile, fnVars>>

\* ==================================================== scorer.py: main
\* lines 44-51: open() raises when PDE.csv is missing; read the rows; the
\* output header is the input header plus Total_Score
ScorerRead ==
  /\ program = "scorer" /\ pc = "start"
  /\ IF ~inputExists
     THEN Halt(1, Msg("FileNotFoundError", <<>>)) /\ UNCHANGED <<rows, fieldnames>>
     ELSE /\ rows' = DictReader(fileHeader, fileLines)
          /\ fieldnames' = IF InSeq("Total_Score", fileHeader) THEN fileHeader
                           ELSE fileHeader \o <<"Total_Score">>
          /\ pc' = "open"
          /\ UNCHANGED <<console, exitStatus>>
  /\ UNCHANGED <<input, i, trainerLog, resultsFile, regFile, points, fnVars>>

\* lines 54-56: open results.csv and write the header
ScorerWriteHeader ==
  /\ program = "scorer" /\ pc = "open"
  /\ resultsFile' = [written |-> TRUE, header |-> fieldnames, rows |-> <<>>]
  /\ i' = 1
  /\ pc' = "row"
  /\ UNCHANGED <<input, rows, fieldnames, trainerLog, console, regFile, exitStatus,
                 points, fnVars>>

\* lines 58-61: score one row and write it
ScorerWriteRow ==
  /\ program = "scorer" /\ pc = "row" /\ i <= Len(rows)
  /\ LET total == scorer_compute_total_score(rows[i])
         row == SetItem(rows[i], "Total_Score", total)
         out == DictWriterRow(fieldnames, row)
     IN  IF total.t = "raise" \/ out.exc # ""
         THEN Halt(1, Msg("Traceback", <<>>)) /\ UNCHANGED <<rows, resultsFile, i>>
         ELSE /\ rows' = [rows EXCEPT ![i] = row]
              /\ resultsFile' = [resultsFile EXCEPT !.rows = Append(@, out.val)]
              /\ i' = i + 1
              /\ UNCHANGED <<pc, console, exitStatus>>
  /\ UNCHANGED <<input, fieldnames, trainerLog, regFile, points, fnVars>>

\* line 63: report and return
ScorerDone ==
  /\ program = "scorer" /\ pc = "row" /\ i > Len(rows)
  /\ console' = Append(console, Msg("Scored", NatText(Len(rows))))
  /\ pc' = "done"
  /\ exitStatus' = 0
  /\ UNCHANGED <<input, rows, fieldnames, i, trainerLog, resultsFile, regFile,
                 points, fnVars>>

Next ==
  \/ LoadInput
  \/ ScoreRow
  \/ RunTrainer
  \/ \E status \in ExitCodes : TrainerExit(status)
  \/ CollectError
  \/ WriteResults
  \/ Regress
  \/ ScorerRead
  \/ ScorerWriteHeader
  \/ ScorerWriteRow
  \/ ScorerDone

Spec == Init /\ [][Next]_vars

\* ============================== the scoring functions called directly
ScoreCellTexts == {<<>>, <<"a", "b", "c">>, <<"1">>, <<" ", "2", " ">>,
                   <<"-", "1", ".", "5">>, <<"i", "n", "f">>,
                   <<"-", "I", "n", "f">>, <<"n", "a", "n">>}

\* tables with all five score columns, and with Coupling missing
ScoreHeaders == {SCORING_COLUMNS, SubSeq(SCORING_COLUMNS, 1, Len(SCORING_COLUMNS) - 1)}

Idle ==
  /\ inputExists = FALSE /\ fileHeader = <<>> /\ fileLines = <<>>
  /\ rows = <<>> /\ fieldnames = <<>> /\ i = 0
  /\ trainerLog = <<>> /\ console = <<>>
  /\ resultsFile = NotWritten /\ regFile = NoReport
  /\ exitStatus = -1 /\ points = NoPoints

pipeline == <<inputExists, fileHeader, fileLines, rows, fieldnames, i, trainerLog,
              console, resultsFile, regFile, exitStatus, points>>

InitScore ==
  /\ program = "compute_total_score"
  /\ pc = "call"
  \* every line of up to Len(h) cells (shorter lines leave trailing cells out)
  /\ \E h \in ScoreHeaders : \E cells \in SeqsUpTo(ScoreCellTexts, Len(h)) :
       fnArgs = DictReaderRow(h, cells)
  /\ fnRet = <<>>
  /\ Idle

\* loop.compute_total_score(row)
CallLoopScore ==
  /\ program = "compute_total_score" /\ pc = "call"
  /\ fnRet' = [impl |-> "loop", val |-> compute_total_score(fnArgs)]
  /\ pc' = "returned"
  /\ UNCHANGED <<program, fnArgs, pipeline>>

\* scorer.compute_total_score(row)
CallScorerScore ==
  /\ program = "compute_total_score" /\ pc = "call"
  /\ fnRet' = [impl |-> "scorer", val |-> scorer_compute_total_score(fnArgs)]
  /\ pc' = "returned"
  /\ UNCHANGED <<program, fnArgs, pipeline>>

NextScore == CallLoopScore \/ CallScorerScore

SpecScore == InitScore /\ [][NextScore]_vars

\* =============================== linear_regression called directly
XVals == {FInt(k) : k \in 1..MaxX}
YVals == {FInt(k) : k \in 0..MaxY}

ExamplePoints == [xs |-> <<FInt(1), FInt(2), FInt(3)>>, ys |-> <<FInt(2), FInt(4), FInt(6)>>]

PointList(ps) == [xs |-> [k \in 1..Len(ps) |-> ps[k][1]], ys |-> [k \in 1..Len(ps) |-> ps[k][2]]]

InitReg ==
  /\ program = "linear_regression"
  /\ pc = "call"
  /\ \/ \E ps \in SeqsUpTo(XVals \X YVals, MaxPts) : fnArgs = PointList(ps)
     \/ fnArgs = ExamplePoints
  /\ fnRet = <<>>
  /\ Idle

\* a, b = linear_regression(xs, ys), and the report of lines 182-191
CallLinearRegression ==
  /\ program = "linear_regression" /\ pc = "call"
  /\ LET res == linear_regression(fnArgs.xs, fnArgs.ys)
     IN  fnRet' = [res |-> res,
                   report |-> IF res.none THEN NoReport
                              ELSE RegressionReport(res, Len(fnArgs.xs))]
  /\ pc' = "returned"
  /\ UNCHANGED <<program, fnArgs, pipeline>>

NextReg == CallLinearRegression

SpecReg == InitReg /\ [][NextReg]_vars

\* ============================================================= claims
\* what the claims say about the input, stated without the program's helpers

\* the record as read from line k of PDE.csv
InputRow(k) == DictReaderRow(fileHeader, fileLines[k])

\* the numeric value a score column contributes: 0 for a missing key, an
\* absent or empty cell, or a text that is no number
Contribution(row, col) ==
  IF ~InSeq(col, row.keys) THEN Zero
  ELSE IF row.vals[col].t # "str" THEN Zero
  ELSE IF row.vals[col].s = <<>> THEN Zero
  ELSE IF PyFloat(row.vals[col]).exc # "" THEN Zero
  ELSE PyFloat(row.vals[col]).val

ExpectedTotal(row) ==
  FAdd(FAdd(FAdd(FAdd(FAdd(Zero, Contribution(row, "Dimensionality")),
                           Contribution(row, "Nonlinearity")),
                      Contribution(row, "Boundary")),
                 Contribution(row, "Time")),
       Contribution(row, "Coupling"))

\* the TrainerModule field is absent, or empty once whitespace is removed
ModuleBlank(row) ==
  \/ ~InSeq("TrainerModule", row.keys)
  \/ row.vals["TrainerModule"].t # "str"
  \/ \A k \in 1..Len(row.vals["TrainerModule"].s) : IsSpace(row.vals["TrainerModule"].s[k])

\* the L3_Error field is present and parses as a number
ErrorParses(row) ==
  /\ InSeq("L3_Error", row.keys)
  /\ row.vals["L3_Error"].t = "str"
  /\ row.vals["L3_Error"].s # <<>>
  /\ PyFloat(row.vals["L3_Error"]).exc = ""

ErrorOf(row) == PyFloat(row.vals["L3_Error"]).val

Launched(r) == \E k \in 1..Len(trainerLog) :
                 trainerLog[k].ev = "launch" /\ trainerLog[k].rec = r

Failed(k) == trainerLog[k].ev = "exit" /\ trainerLog[k].status # 0

Printed(tag) == \E k \in 1..Len(console) : console[k].tag = tag

\* C1: once a trainer exits with a non-zero status the run is aborted at that
\* record: that exit is the last trainer event of the run, and neither
\* results.csv nor regression.txt is written.
C1_FailedTrainerAborts ==
  \A k \in 1..Len(trainerLog) :
    Failed(k) =>
      /\ k = Len(trainerLog)
      /\ pc = "exit" /\ exitStatus # 0
      /\ i = trainerLog[k].rec
      /\ ~resultsFile.written
      /\ ~regFile.written

\* a trainer failed while a later record still names a trainer
C1_Witness ==
  /\ trainerLog # <<>> /\ Failed(Len(trainerLog))
  /\ pc = "exit"
  /\ \E j \in (i + 1)..Len(rows) : ~ModuleBlank(rows[j])

\* C2: trainers run one at a time in file order: a launch is for a record that
\* names a trainer, every earlier launch was for an earlier record and has
\* exited before it, no earlier record naming a trainer was passed over, and
\* no record is launched twice.
C2_TrainersSequential ==
  \A k \in 1..Len(trainerLog) :
    trainerLog[k].ev = "launch" =>
      /\ ~ModuleBlank(InputRow(trainerLog[k].rec))
      /\ \A m \in 1..(k - 1) :
           trainerLog[m].ev = "launch" =>
             /\ trainerLog[m].rec < trainerLog[k].rec
             /\ \E q \in (m + 1)..(k - 1) :
                  trainerLog[q].ev = "exit" /\ trainerLog[q].rec = trainerLog[m].rec
      /\ \A r \in 1..(trainerLog[k].rec - 1) :
           ~ModuleBlank(InputRow(r)) =>
             \E m \in 1..(k - 1) : trainerLog[m].ev = "launch" /\ trainerLog[m].rec = r

\* trainers of two different records have both been launched
C2_Witness ==
  \E k, m \in 1..Len(trainerLog) :
    /\ trainerLog[k].ev = "launch" /\ trainerLog[m].ev = "launch"
    /\ trainerLog[m].rec < trainerLog[k].rec

\* C3: both compute_total_score functions return, for any record, the sum of
\* the five score columns' numeric values with 0 for a missing key, an empty
\* cell or an unparsable text, and never raise.
C3_TotalScoreIsSum ==
  (program = "compute_total_score" /\ pc = "returned") =>
    fnRet.val = Flt(ExpectedTotal(fnArgs))

\* Dimensionality " 2 ", Nonlinearity "1", Boundary empty, Time "abc", no
\* Coupling key: the score is 3.0
C3_Witness ==
  /\ program = "compute_total_score" /\ pc = "returned"
  /\ fnRet.impl = "loop"
  /\ ~InSeq("Coupling", fnArgs.keys)
  /\ fnArgs.vals["Dimensionality"] = Str(<<" ", "2", " ">>)
  /\ fnArgs.vals["Nonlinearity"] = Str(<<"1">>)
  /\ fnArgs.vals["Boundary"] = Str(<<>>)
  /\ fnArgs.vals["Time"] = Str(<<"a", "b", "c">>)
  /\ fnRet.val = Flt(FInt(3))

AllSameX == \A j, k \in 1..Len(points.xs) : points.xs[j] = points.xs[k]

\* C4: a run whose valid pairs are none, or all share one Total_Score, ends
\* normally reporting insufficient data and writes no regression.txt.
C4_DegenerateIsInsufficient ==
  (program = "loop" /\ pc = "done" /\ AllSameX) =>
    /\ ~regFile.written
    /\ Printed("Not enough valid pairs")
    /\ exitStatus = 0

\* C5: with PDE.csv missing the run exits with status 1, with no data row it
\* exits with status 0; either way nothing is processed: no trainer is
\* launched and no file is written.
C5_NoInputNoProcessing ==
  (program = "loop" /\ (~inputExists \/ fileLines = <<>>)) =>
    /\ pc \in {"start", "exit"}
    /\ pc = "exit" => exitStatus = (IF inputExists THEN 0 ELSE 1)
    /\ trainerLog = <<>>
    /\ ~resultsFile.written
    /\ ~regFile.written

\* PDE.csv has a header and no data row, and the run has ended with status 0
C5_Witness ==
  /\ program = "loop" /\ inputExists /\ fileHeader # <<>> /\ fileLines = <<>>
  /\ pc = "exit" /\ exitStatus = 0

\* C6: at a record whose TrainerModule is absent or blank the trainer step
\* launches nothing and raises nothing, and the run goes on to that record's
\* error collection and from there to the next record (or the writer).
C6_BlankModuleSkips ==
  [][ /\ (program = "loop" /\ pc = "trainer" /\ ModuleBlank(rows[i])) =>
           /\ pc' = "error" /\ i' = i
           /\ trainerLog' = trainerLog
           /\ exitStatus' = -1
      /\ (program = "loop" /\ pc = "error") =>
           /\ i' = i + 1
           /\ pc' = (IF i < Len(rows) THEN "score" ELSE "write")
           /\ exitStatus' = -1 ]_vars

\* the previous record's TrainerModule is a blank (non-empty) text, nothing
\* was launched for it, and the loop is at the next record
C6_Witness ==
  /\ program = "loop" /\ pc = "score" /\ i > 1
  /\ InSeq("TrainerModule", rows[i - 1].keys)
  /\ rows[i - 1].vals["TrainerModule"] = Str(<<" ">>)
  /\ ~Launched(i - 1)
  /\ exitStatus = -1

\* ---- C7: the least-squares formulas, on exact numbers
Mean(s) == FDiv(FSum(s), FInt(Len(s)))
SlopeNum(xs, ys) ==
  FSum([k \in 1..Len(xs) |-> FMul(FSub(xs[k], Mean(xs)), FSub(ys[k], Mean(ys)))])
SlopeDen(xs) ==
  FSum([k \in 1..Len(xs) |-> FMul(FSub(xs[k], Mean(xs)), FSub(xs[k], Mean(xs)))])

\* the points lie on one line (integer coordinates, cross products)
Collinear(xs, ys) ==
  \A j, k \in 1..Len(xs) :
    (xs[j].n - xs[1].n) * (ys[k].n - ys[1].n) = (xs[k].n - xs[1].n) * (ys[j].n - ys[1].n)

RECURSIVE ExpectedPoints(_)
ExpectedPoints(k) ==
  IF k = 0 THEN NoPoints
  ELSE LET before == ExpectedPoints(k - 1)
           row == InputRow(k)
       IN  IF ErrorParses(row) /\ ~IsNaN(ErrorOf(row))
           THEN [xs |-> Append(before.xs, ExpectedTotal(row)),
                 ys |-> Append(before.ys, ErrorOf(row))]
           ELSE before

\* C8: the regression is fitted over exactly the records whose L3_Error
\* parses to a number that is not NaN, one point (Total_Score, error) per such
\* record in record order, and "Used <n> points." reports their number.
C8_PointsAreValidRecords ==
  (program = "loop" /\ pc = "done") =>
    /\ points = ExpectedPoints(Len(fileLines))
    /\ regFile.written => regFile.used = NatText(Len(ExpectedPoints(Len(fileLines)).xs))

\* a finished run that fitted a line while leaving out a NaN error
C8_Witness ==
  /\ program = "loop" /\ pc = "done" /\ regFile.written
  /\ Len(points.xs) >= 2
  /\ \E k \in 1..Len(fileLines) : ErrorParses(InputRow(k)) /\ IsNaN(ErrorOf(InputRow(k)))

\* the text of column j of input line k (an absent cell is the empty text)
InputText(k, j) == IF j <= Len(fileLines[k]) THEN fileLines[k][j] ELSE <<>>

\* the record's L3_Error is replaced by its parsed value
ErrorNormalised(k) == program = "loop" /\ ErrorParses(InputRow(k))

\* C9: the output table has one row per input line, in order, under the
\* input's columns in their order (Total_Score added last when the input has
\* none), and every input text is unchanged in it, except Total_Score and an
\* L3_Error the run replaced by its parsed value.
C9_RoundTrip ==
  pc = "done" =>
    /\ resultsFile.written
    /\ resultsFile.header = (IF InSeq("Total_Score", fileHeader) THEN fileHeader
                             ELSE fileHeader \o <<"Total_Score">>)
    /\ Len(resultsFile.rows) = Len(fileLines)
    /\ \A k \in 1..Len(fileLines) :
         /\ Len(resultsFile.rows[k]) = Len(resultsFile.header)
         /\ \A j \in 1..Len(fileHeader) :
              (/\ fileHeader[j] # "Total_Score"
               /\ ~(fileHeader[j] = "L3_Error" /\ ErrorNormalised(k))) =>
                resultsFile.rows[k][j] = InputText(k, j)

\* a finished loop.py run wrote back an unparsable, non-empty L3_Error text
C9_Witness ==
  /\ program = "loop" /\ pc = "done" /\ Len(fileLines) >= 2
  /\ \E k \in 1..Len(fileLines) : \E j \in 1..Len(fileHeader) :
       /\ fileHeader[j] = "L3_Error"
       /\ InputText(k, j) = <<"n", "/", "a">>
       /\ resultsFile.rows[k][j] = <<"n", "/", "a">>

\* record r has been scored and its trainer step is over
Processed(r) ==
  /\ InSeq("Total_Score", rows[r].keys) /\ rows[r].vals["Total_Score"].t = "float"
  /\ \/ ModuleBlank(rows[r])
     \/ \E k \in 1..Len(trainerLog) :
          trainerLog[k] = [ev |-> "exit", rec |-> r, status |-> 0]

\* C10: results.csv is written only after every record was scored and its
\* trainer step completed, and before the regression: regression.txt, the
\* gathered points and the insufficient-data report exist only in a run that
\* has written results.csv.
C10_WriteAfterAllBeforeRegression ==
  program = "loop" =>
    /\ resultsFile.written =>
         /\ i = Len(rows) + 1
         /\ \A r \in 1..Len(rows) : Processed(r)
    /\ regFile.written => resultsFile.written
    /\ Printed("Not enough valid pairs") => resultsFile.written
    /\ pc = "done" => resultsFile.written

\* a run over several records, one with a trainer, ended with insufficient
\* data and results.csv written
C10_Witness ==
  /\ program = "loop" /\ pc = "done" /\ Len(rows) >= 2
  /\ Printed("Not enough valid pairs")
  /\ ~regFile.written
  /\ resultsFile.written
  /\ trainerLog # <<>>

====
